---- MODULE Spec2Model ----
(***************************************************************************)
(* Model of the upc-checker crate (src/src/lib.rs): the UPCCode struct, a  *)
(* tagged fixed-length i8 payload plus one i8 check digit, and its single  *)
(* public operation check_code with the private helpers it calls.          *)
(***************************************************************************)
EXTENDS Integers, Sequences, FiniteSets

VARIABLES code, check_digit, result, locals, log, swaps

vars == <<code, check_digit, result, locals, log, swaps>>

(***************************************************************************)
(* Bounds of the model.                                                    *)
(***************************************************************************)
\* how many payload positions of a unit-test payload a constructed struct may differ in
MaxEdits == 1
\* how many times check_code is called on one struct
MaxCalls == 2
\* how many transpositions of payload digits the caller applies
MaxSwaps == 1

(***************************************************************************)
(* Widths of the integer types of lib.rs.                                  *)
(***************************************************************************)
UPCA_LEN == 12
UPCE_LEN == 8
U8_MAX == 255
U16_MAX == 65535
I8_MIN == -128
I8_MAX == 127

\* `x as u8` and `x as u16` of an i8 or a wider unsigned value
AsU8(x) == x % (U8_MAX + 1)
AsU16(x) == x % (U16_MAX + 1)

\* Rust's `%` on signed integers: the remainder takes the sign of the dividend
RustRem(a, b) == IF a >= 0 THEN a % b ELSE -((-a) % b)

(***************************************************************************)
(* The i8 values the model draws payload digits and check digits from:     *)
(* every decimal digit, and values outside 0..9 on both sides, among them  *)
(* the ends of the i8 domain and the values the tests use (12, 30, 70).    *)
(***************************************************************************)
Digits == 0 .. 9
PayloadValues == Digits \cup {I8_MIN, -1, 10, 12, 30, I8_MAX}
CheckDigitValues == Digits \cup {I8_MIN, -1, 10, 70, I8_MAX}

\* UPCCodeType: the tag and the fixed-length array it carries
UPCA(x) == [standard |-> "UPCA", digits |-> x]
UPCE(x) == [standard |-> "UPCE", digits |-> x]

UPCCodeType(c) ==
    /\ c.standard \in {"UPCA", "UPCE"}
    /\ Len(c.digits) = (IF c.standard = "UPCA" THEN UPCA_LEN ELSE UPCE_LEN)
    /\ \A k \in 1 .. Len(c.digits) : c.digits[k] \in I8_MIN .. I8_MAX

(***************************************************************************)
(* The payloads the crate's tests construct.                               *)
(***************************************************************************)
Nines(n) == [k \in 1 .. n |-> 9]

TestCodes ==
    { UPCE(<<0, 3, 6, 7, 4, 3, 3, 4>>),
      UPCA(<<0, 3, 6, 7, 4, 3, 3, 4, 4, 3, 3, 4>>),
      UPCE(<<0, 3, 6, 7, 4, 9, 9, 4>>),
      UPCE(<<0, 3, 6, 7, 4, 30, 3, 4>>),
      UPCA(Nines(UPCA_LEN)),
      UPCE(Nines(UPCE_LEN)) }

(***************************************************************************)
(* Helpers of lib.rs.                                                      *)
(***************************************************************************)
is_1_digit_exclusive(num) == num > 0 /\ num < 9

is_1_digit(num) == ~(num < 0 \/ num > 9)

check_slice_validity_none(given_slice) == TRUE

check_slice_validity(given_slice) ==
    \A k \in 1 .. Len(given_slice) : is_1_digit(given_slice[k])

validate_nums_unchecked(c, cd) == TRUE

validate_nums(c, cd) ==
    IF ~check_slice_validity(c.digits) THEN FALSE ELSE is_1_digit(cd)

\* `acc += v` on a u8: the sum, wrapped to the width, and whether it overflowed
AddU8(acc, v) == [val |-> AsU8(acc + v), over |-> acc + v > U8_MAX]

\* one iteration of the loop of mod_check_slice on the tuple (even, odd)
ModCheckStep(r, c) ==
    IF RustRem(c, 2) = 0
    THEN [even |-> AddU8(r.even, AsU8(c)).val, odd |-> r.odd,
          overflowed |-> r.overflowed \/ AddU8(r.even, AsU8(c)).over]
    ELSE [even |-> r.even, odd |-> AddU8(r.odd, AsU8(c)).val,
          overflowed |-> r.overflowed \/ AddU8(r.odd, AsU8(c)).over]

\* the variant that splits by the 0-based index of the digit
ModCheckStepAt(r, c, k) ==
    IF (k - 1) % 2 = 0
    THEN [even |-> AddU8(r.even, AsU8(c)).val, odd |-> r.odd,
          overflowed |-> r.overflowed \/ AddU8(r.even, AsU8(c)).over]
    ELSE [even |-> r.even, odd |-> AddU8(r.odd, AsU8(c)).val,
          overflowed |-> r.overflowed \/ AddU8(r.odd, AsU8(c)).over]

RECURSIVE ModCheckLoop(_, _, _)
ModCheckLoop(codes, k, r) ==
    IF k > Len(codes) THEN r
    ELSE ModCheckLoop(codes, k + 1, ModCheckStep(r, codes[k]))

RECURSIVE ModCheckLoopAt(_, _, _)
ModCheckLoopAt(codes, k, r) ==
    IF k > Len(codes) THEN r
    ELSE ModCheckLoopAt(codes, k + 1, ModCheckStepAt(r, codes[k], k))

mod_check_slice_by_index(codes) ==
    ModCheckLoopAt(codes, 1, [even |-> 0, odd |-> 0, overflowed |-> FALSE])

mod_check_slice(codes) ==
    ModCheckLoop(codes, 1, [even |-> 0, odd |-> 0, overflowed |-> FALSE])

add_even_odd_total(c) == mod_check_slice(c.digits)

(***************************************************************************)
(* check_code.  An arithmetic overflow panics in a build with overflow     *)
(* checks and wraps in a build without them.                               *)
(***************************************************************************)
Builds == {"checked", "wrapping"}

NoLocals == [computed |-> FALSE, even_nums |-> 0, odd_nums |-> 0, total |-> 0,
             overflowed |-> FALSE]

MatchesNoZeroCase(total, cd) == AsU16(10 - total) = AsU16(cd)

\* the comparison of line 147, with `||` and `&&` evaluated left to right
Matches(total, cd) ==
    (total = 0 /\ cd = 0) \/ (AsU16(10 - total) = AsU16(cd))

\* whether line 147 evaluates `10 - total` below zero
Underflows(total, cd) == ~(total = 0 /\ cd = 0) /\ 10 - total < 0

check_code_locals(c, cd) ==
    IF ~validate_nums(c, cd) THEN NoLocals
    ELSE LET s == add_even_odd_total(c)
             wide == s.odd * 3 + s.even
             total == AsU16(0 + (AsU16(wide) % 10))
         IN [computed |-> TRUE, even_nums |-> s.even, odd_nums |-> s.odd,
             total |-> total,
             overflowed |-> s.overflowed \/ wide > U16_MAX \/ Underflows(total, cd)]

check_code(c, cd, build) ==
    IF ~validate_nums(c, cd) THEN "Err(IntOverflow)"
    ELSE LET l == check_code_locals(c, cd)
         IN IF l.overflowed /\ build = "checked" THEN "panic"
            ELSE IF Matches(l.total, cd) THEN "Ok(true)"
            ELSE "Ok(false)"

(***************************************************************************)
(* State machine.                                                          *)
(***************************************************************************)
TypeOK ==
    /\ UPCCodeType(code)
    /\ check_digit \in I8_MIN .. I8_MAX
    /\ result \in {"None", "Ok(true)", "Ok(false)", "Err(IntOverflow)", "panic"}
    /\ Len(log) <= MaxCalls
    /\ swaps \in 0 .. MaxSwaps

\* x with the positions of S replaced by the values of f
Replace(x, S, f) == [k \in 1 .. Len(x) |-> IF k \in S THEN f[k] ELSE x[k]]

\* a struct literal: a payload of the tests with at most MaxEdits digits replaced,
\* and any check digit
Init ==
    /\ \E t \in TestCodes :
         \E S \in {P \in SUBSET (1 .. Len(t.digits)) : Cardinality(P) <= MaxEdits} :
           \E f \in [S -> PayloadValues] :
              code = [standard |-> t.standard, digits |-> Replace(t.digits, S, f)]
    /\ check_digit \in CheckDigitValues
    /\ result = "None"
    /\ locals = NoLocals
    /\ log = <<>>
    /\ swaps = 0

\* the structs of the unit tests of lib.rs, with every check digit
InitPerm ==
    /\ code \in TestCodes
    /\ check_digit \in CheckDigitValues
    /\ result = "None"
    /\ locals = NoLocals
    /\ log = <<>>
    /\ swaps = 0

\* a check_code that writes the digit it computed back into the struct
CheckCodeWriting ==
    /\ Len(log) < MaxCalls
    /\ \E build \in Builds :
         /\ result' = check_code(code, check_digit, build)
         /\ locals' = check_code_locals(code, check_digit)
         /\ check_digit' = (IF locals'.computed /\ result' = "Ok(false)"
                            THEN (10 - locals'.total) % 10 ELSE check_digit)
         /\ log' = Append(log, [code |-> code, check_digit |-> check_digit,
                                result |-> result'])
    /\ UNCHANGED <<code, swaps>>

\* my_upc_code.check_code(): takes &self, returns the Result
CheckCode ==
    /\ Len(log) < MaxCalls
    /\ \E build \in Builds :
         /\ result' = check_code(code, check_digit, build)
         /\ locals' = check_code_locals(code, check_digit)
         /\ log' = Append(log, [code |-> code, check_digit |-> check_digit,
                                result |-> result'])
    /\ UNCHANGED <<code, check_digit, swaps>>

\* the caller exchanges two payload digits of the struct it owns
SwapDigits(i, j) ==
    /\ swaps < MaxSwaps
    /\ i < j
    /\ code.digits[i] # code.digits[j]
    /\ code' = [code EXCEPT !.digits = [code.digits EXCEPT ![i] = code.digits[j],
                                                          ![j] = code.digits[i]]]
    /\ swaps' = swaps + 1
    /\ UNCHANGED <<check_digit, result, locals, log>>

Next == CheckCode

NextPerm ==
    \/ CheckCode
    \/ \E i \in 1 .. Len(code.digits) : \E j \in 1 .. Len(code.digits) : SwapDigits(i, j)

Spec == Init /\ [][Next]_vars

SpecPerm == InitPerm /\ [][NextPerm]_vars

(***************************************************************************)
(* Vocabulary of the properties.                                           *)
(***************************************************************************)
Called == Len(log) > 0

InRange(x) == \A k \in 1 .. Len(x) : x[k] \in Digits

Booleans == {"Ok(true)", "Ok(false)"}

RECURSIVE SumOver(_, _)
SumOver(x, K) ==
    IF K = {} THEN 0
    ELSE LET k == CHOOSE m \in K : TRUE IN x[k] + SumOver(x, K \ {k})

EvenValued(x) == {k \in 1 .. Len(x) : x[k] % 2 = 0}
OddValued(x) == {k \in 1 .. Len(x) : x[k] % 2 = 1}
EvenIndexed(x) == {k \in 1 .. Len(x) : (k - 1) % 2 = 0}
OddIndexed(x) == {k \in 1 .. Len(x) : (k - 1) % 2 = 1}

Weighted(odd_sum, even_sum) == (odd_sum * 3 + even_sum) % 10

Expected(odd_sum, even_sum) ==
    IF Weighted(odd_sum, even_sum) = 0 THEN 0 ELSE 10 - Weighted(odd_sum, even_sum)

ExpectedByValue(x) == Expected(SumOver(x, OddValued(x)), SumOver(x, EvenValued(x)))
ExpectedByIndex(x) == Expected(SumOver(x, OddIndexed(x)), SumOver(x, EvenIndexed(x)))

\* q holds the digits of p in some order
IsPermutation(p, q) ==
    /\ Len(p) = Len(q)
    /\ \A v \in {p[k] : k \in 1 .. Len(p)} \cup {q[k] : k \in 1 .. Len(q)} :
          Cardinality({k \in 1 .. Len(p) : p[k] = v})
            = Cardinality({k \in 1 .. Len(q) : q[k] = v})

(***************************************************************************)
(* Properties.                                                             *)
(***************************************************************************)

\* C1: when every payload digit and the check digit are in 0..9, 0 and 9
\* included, check_code returns Ok with a boolean and never an error.
C1_InRangeReturnsBoolean ==
    (Called /\ InRange(code.digits) /\ check_digit \in Digits)
        => result \in Booleans

\* a payload holding both a 0 and a 9, with check digit 0 or 9, was checked
C1_Witness ==
    /\ Called
    /\ InRange(code.digits)
    /\ \E k \in 1 .. Len(code.digits) : code.digits[k] = 0
    /\ \E k \in 1 .. Len(code.digits) : code.digits[k] = 9
    /\ check_digit \in {0, 9}
    /\ result \in Booleans

\* C2: when some payload digit is outside 0..9, check_code returns the
\* out-of-range error whatever the check digit is, and computes no checksum.
C2_PayloadOutOfRangeIsError ==
    (Called /\ ~InRange(code.digits))
        => (result = "Err(IntOverflow)" /\ ~locals.computed)

\* a payload with a digit outside 0..9 was checked with a check digit outside 0..9
C2_Witness ==
    /\ Called
    /\ ~InRange(code.digits)
    /\ check_digit \notin Digits
    /\ result = "Err(IntOverflow)"

\* C3: when the payload is in range and the check digit is not, check_code
\* returns an error that differs from the error of an out-of-range payload.
C3_CheckDigitErrorIsDistinct ==
    (Called /\ InRange(code.digits) /\ check_digit \notin Digits)
        => (result \notin Booleans /\ result # "panic" /\ result # "Err(IntOverflow)")

C5_TrueIffExpectedByIndex ==
    (Called /\ InRange(code.digits) /\ check_digit \in Digits)
        => /\ result \in Booleans
           /\ (result = "Ok(true)") <=> (check_digit = ExpectedByIndex(code.digits))

\* C6: for the UPC-A payload of twelve 9s with check digit 7, check_code
\* returns Ok(true).
C6_TwelveNinesCheck7 ==
    (Called /\ code = UPCA(Nines(UPCA_LEN)) /\ check_digit = 7)
        => result = "Ok(true)"

\* C7: for the UPC-E payload [0,3,6,7,4,3,3,4] with check digit 9 check_code
\* returns Ok(true), and for [0,3,6,7,4,9,9,4] with check digit 9, Ok(false).
C7_UnitTestVectors ==
    /\ (Called /\ code = UPCE(<<0, 3, 6, 7, 4, 3, 3, 4>>) /\ check_digit = 9)
          => result = "Ok(true)"
    /\ (Called /\ code = UPCE(<<0, 3, 6, 7, 4, 9, 9, 4>>) /\ check_digit = 9)
          => result = "Ok(false)"

\* C8: whatever i8 values the payload and the check digit hold, check_code
\* completes with Ok or Err: no step of its arithmetic leaves the range of
\* its type, and no call panics.
C8_NoOverflow ==
    Called =>
        /\ result \in Booleans \cup {"Err(IntOverflow)"}
        /\ ~locals.overflowed
        /\ locals.computed =>
              /\ SumOver(code.digits, EvenValued(code.digits)) <= U8_MAX
              /\ SumOver(code.digits, OddValued(code.digits)) <= U8_MAX
              /\ locals.even_nums = SumOver(code.digits, EvenValued(code.digits))
              /\ locals.odd_nums = SumOver(code.digits, OddValued(code.digits))
              /\ locals.odd_nums * 3 + locals.even_nums <= U16_MAX
              /\ 10 - locals.total >= 0

\* the checksum of twelve 9s, the largest sum a payload can reach, was computed
C8_Witness ==
    /\ Called
    /\ locals.computed
    /\ locals.odd_nums = 9 * UPCA_LEN
    /\ result \in Booleans

====
